---------------------------- MODULE Spec2Model ----------------------------
(***************************************************************************)
(* Model of the algorithmic core of manim-hero/dem_hero.py:                *)
(*   BlobPhysics      - the spring body driven once per tick,              *)
(*   MetaballField    - the implicit field and its grid boundary scan,     *)
(*   MetaballMobject  - the reduction of the boundary cloud to a path.     *)
(*                                                                         *)
(* Python floats are modelled by fixed-point integers.  A value v of the   *)
(* spring body is the integer v * SCALE; every product and quotient is     *)
(* rounded to the nearest representable value, as an IEEE operation is.    *)
(* Coordinates and radii of the field are integers in units of 1/UNIT,     *)
(* and field values are fixed-point numbers with four octal fractional     *)
(* digits (1 is FONE), each quotient r*r / dist_sq truncated to that grid. *)
(* The scales are chosen so that every literal of the source (0.08, 0.85,  *)
(* 0.5, 0.3, 1.5, 0.0001, the viewport bounds and the grid steps of the    *)
(* resolutions used) is represented exactly and every intermediate value   *)
(* fits TLC's 32-bit integers.                                             *)
(***************************************************************************)
EXTENDS Integers, Sequences, FiniteSets, TLC

VARIABLES
    \* BlobPhysics (lines 253-264)
    x, y, vx, vy, base_radius, radius,
    \* the driver of the body: index of the current target, ticks done for
    \* it, length of the current run of at-rest ticks, velocity at its start
    ti, k, restRun, restV,
    \* MetaballField (lines 88-90)
    threshold, blobs,
    \* the last call on the field and what it returned
    ret,
    \* MetaballMobject (lines 204-207) and the points it holds
    resolution, points, hullTried

bodyVars   == <<x, y, vx, vy, base_radius, radius>>
driverVars == <<ti, k, restRun, restV>>
fieldVars  == <<threshold, blobs>>
mobVars    == <<resolution, points, hullTried>>
vars       == <<bodyVars, driverVars, fieldVars, ret, mobVars>>

-----------------------------------------------------------------------------
(* Fixed-point arithmetic of the spring body *)

\* resolution of the body's numbers: 1 is represented by SCALE
SCALE == 10000

Abs(a) == IF a < 0 THEN -a ELSE a

Min(a, b) == IF a <= b THEN a ELSE b

\* n / d rounded to the nearest integer (d > 0), halves away from zero
RoundDiv(n, d) ==
    IF n >= 0 THEN (2 * n + d) \div (2 * d)
              ELSE -((2 * (-n) + d) \div (2 * d))

\* float product and quotient of two fixed-point numbers
FMul(a, b) == RoundDiv(a * b, SCALE)
FDiv(a, b) == RoundDiv(a * SCALE, b)

RECURSIVE IsqrtBetween(_, _, _)
IsqrtBetween(n, lo, hi) ==
    IF lo >= hi THEN lo
    ELSE LET mid == (lo + hi + 1) \div 2
         IN  IF mid * mid <= n THEN IsqrtBetween(n, mid, hi)
                               ELSE IsqrtBetween(n, lo, mid - 1)

\* floor of the square root of n >= 0 (46340 is the largest root whose
\* square is a 32-bit integer)
Isqrt(n) == IsqrtBetween(n, 0, Min(n, 46340))

-----------------------------------------------------------------------------
(* BlobPhysics *)

stiffness   == 800       \* 0.08
damping     == 8500      \* 0.85
max_stretch == 15000     \* 1.5
SpeedRef    == 5000      \* the 0.5 of speed / 0.5
StretchGain == 3000      \* the 0.3 of stretch_factor * 0.3

\* lines 269-277 for one axis: the velocity after the spring force and damping
SpringVelNoDamping(v, pos, target) == v + FMul(target - pos, stiffness)
SpringVel(v, pos, target) == FMul(v + FMul(target - pos, stiffness), damping)

\* line 284: np.sqrt(vx**2 + vy**2)
Speed(ux, uy) == Isqrt(ux * ux + uy * uy)

\* line 285
StretchFactor(speed) == Min(FDiv(speed, SpeedRef), max_stretch - SCALE)

\* line 286
StretchedRadiusUnclamped(base, speed) ==
    FMul(base, SCALE + FMul(FDiv(speed, SpeedRef), StretchGain))
StretchedRadius(base, speed) ==
    FMul(base, SCALE + FMul(StretchFactor(speed), StretchGain))

\* BlobPhysics.__init__
BlobInit(x0, y0, r0) ==
    /\ x = x0 /\ y = y0
    /\ vx = 0 /\ vy = 0
    /\ base_radius = r0
    /\ radius = r0

\* BlobPhysics.update(target_x, target_y); dt is accepted and not used
update(target_x, target_y) ==
    LET nvx == SpringVel(vx, x, target_x)
        nvy == SpringVel(vy, y, target_y)
    IN  /\ vx' = nvx
        /\ vy' = nvy
        /\ x' = x + nvx
        /\ y' = y + nvy
        /\ radius' = StretchedRadius(base_radius, Speed(nvx, nvy))
        /\ UNCHANGED base_radius

-----------------------------------------------------------------------------
(* TestMetaball.construct: the body chases four targets, 60 ticks each *)

targets == << <<3 * SCALE, 0>>, <<-2 * SCALE, SCALE>>, <<0, -SCALE>>, <<0, 0>> >>

TicksPerTarget == 60

\* no field and no mobject are built
FieldIdle ==
    /\ threshold = 0 /\ blobs = <<>> /\ ret = [op |-> "none"]
    /\ resolution = 0 /\ points = <<>> /\ hullTried = FALSE

InitTest ==
    /\ BlobInit(0, 0, 15000)
    /\ ti = 1 /\ k = 0 /\ restRun = 0 /\ restV = <<0, 0>>
    /\ FieldIdle

\* one pass of the inner loop, lines 610-611
TestTick ==
    /\ ti <= Len(targets)
    /\ update(targets[ti][1], targets[ti][2])
    /\ IF k + 1 = TicksPerTarget
          THEN ti' = ti + 1 /\ k' = 0
          ELSE ti' = ti /\ k' = k + 1
    /\ UNCHANGED <<restRun, restV, fieldVars, ret, mobVars>>

NextTest == TestTick

SpecTest == InitTest /\ [][NextTest]_vars

(* C1: in the first 60 ticks of the BlobBody scenario (start (0,0), base
   radius 1.5, target (3,0)) x never decreases from one tick to the next and
   never exceeds 3 / damping. *)
C1_MonotoneNoOvershoot ==
    [][ti = 1 => (x' >= x /\ x' * damping <= 3 * SCALE * SCALE)]_vars

-----------------------------------------------------------------------------
(* A body built anywhere, driven by any targets, then left at rest: the
   driver calls update with arbitrary targets, and from some tick on with the
   body's own position as the target *)

MaxDrive == 3
MaxRest  == 52

StartPositions == { <<0, 0>>, <<-2 * SCALE, SCALE>> }
StartRadii     == { -SCALE, 0, 100, 15000 }
DriveTargets   == { targets[i] : i \in 1..Len(targets) }

InitBlob ==
    /\ \E p \in StartPositions, r \in StartRadii : BlobInit(p[1], p[2], r)
    /\ ti = 0 /\ k = 0 /\ restRun = 0 /\ restV = <<0, 0>>
    /\ FieldIdle

\* update with a target of the driver's choice
Drive ==
    /\ k < MaxDrive
    /\ restRun = 0
    /\ \E t \in DriveTargets : update(t[1], t[2])
    /\ k' = k + 1
    /\ UNCHANGED <<ti, restRun, restV, fieldVars, ret, mobVars>>

\* update with target == current position
RestTick ==
    /\ restRun < MaxRest
    /\ update(x, y)
    /\ restRun' = restRun + 1
    /\ restV' = IF restRun = 0 THEN <<vx, vy>> ELSE restV
    /\ UNCHANGED <<ti, k, fieldVars, ret, mobVars>>

NextBlob == Drive \/ RestTick

SpecBlob == InitBlob /\ [][NextBlob]_vars

Clamp(v, lo, hi) == IF v < lo THEN lo ELSE IF v > hi THEN hi ELSE v

Updated == k + restRun > 0

\* radius as the invariant of the data model states it, from the stored velocity
RadiusOfStoredVelocity ==
    FMul(base_radius,
         SCALE + FMul(Clamp(FDiv(Speed(vx, vy), SpeedRef), 0, max_stretch - SCALE),
                      StretchGain))

RadiusWithinStretch ==
    base_radius >= 0 =>
        /\ base_radius <= radius
        /\ radius <= FMul(base_radius, 11500)

(* C2 as stated: after every update radius = base_radius * (1 + stretchFactor
   * 0.3) for the stored velocity, base_radius <= radius <= 1.15 * base_radius
   for base_radius >= 0, and radius > base_radius whenever speed > 0. *)
C2_Original ==
    Updated =>
        /\ radius = RadiusOfStoredVelocity
        /\ RadiusWithinStretch
        /\ (base_radius >= 0 /\ Speed(vx, vy) > 0) => radius > base_radius

(* C2 amended: after every update radius = base_radius * (1 + stretchFactor *
   0.3) for the stored velocity and base_radius <= radius <= 1.15 *
   base_radius for base_radius >= 0; radius > base_radius is guaranteed only
   where the stretch term survives rounding: for base_radius >= 0.01 and
   speed >= 0.05. *)
C2_RadiusInvariant ==
    Updated =>
        /\ radius = RadiusOfStoredVelocity
        /\ RadiusWithinStretch
        /\ (base_radius >= 100 /\ Speed(vx, vy) >= 500) => radius > base_radius

\* an update has left the body moving fast enough to be clamped, another
\* slowly: both stretched
C2_Witness ==
    /\ Updated
    /\ base_radius = 15000
    /\ Speed(vx, vy) >= 500
    /\ Speed(vx, vy) < 2500
    /\ radius > base_radius
    /\ radius < FMul(base_radius, 11500)

(* C3: while update is called with the body's own position as the target,
   |vx| and |vy| never grow; after 50 consecutive such ticks the velocity is
   below a thousandth of what it was when the run began (up to the rounding
   of the last digits) and radius is within a thousandth of base_radius; and
   from vx = vy = 0 such an update leaves x, y, vx, vy unchanged and sets
   radius exactly to base_radius. *)
C3_AtRest ==
    [][restRun' = restRun + 1 =>
          /\ Abs(vx') <= Abs(vx)
          /\ Abs(vy') <= Abs(vy)
          /\ restRun' >= 50 =>
                /\ Abs(vx') * 1000 <= Abs(restV'[1]) + 3 * 1000
                /\ Abs(vy') * 1000 <= Abs(restV'[2]) + 3 * 1000
                /\ Abs(radius' - base_radius) * 1000 <= Abs(base_radius)
          /\ (vx = 0 /\ vy = 0) =>
                /\ UNCHANGED <<x, y, vx, vy>>
                /\ radius' = base_radius]_vars

\* 50 ticks at rest after the body was moving
C3_Witness ==
    /\ restRun >= 50
    /\ Abs(restV[1]) >= 1000
    /\ base_radius = 15000
    /\ Abs(vx) <= 3

-----------------------------------------------------------------------------
(* Fixed-point arithmetic of the field *)

\* coordinates and radii: 1 is represented by UNIT
UNIT == 800

\* field values: 1 is represented by FONE, four octal digits
FONE == 8 * 8 * 8 * 8

\* the 0.0001 of line 107, in squared coordinate units (0.0001 * UNIT * UNIT)
EPS == 64

\* the float quotient n / d of two squared lengths (n >= 0, d > 0), as a
\* field value: the integer part and four octal digits by long division
Quot(n, d) ==
    LET t1 == 8 * (n % d)
        t2 == 8 * (t1 % d)
        t3 == 8 * (t2 % d)
        t4 == 8 * (t3 % d)
    IN  (n \div d) * FONE
          + (t1 \div d) * 512 + (t2 \div d) * 64 + (t3 \div d) * 8 + (t4 \div d)

-----------------------------------------------------------------------------
(* MetaballField *)

\* lines 105-108: what one blob adds to the total
ContributionLinear(b, px, py) ==
    LET dx == px - b[1]
        dy == py - b[2]
        dist_sq == dx * dx + dy * dy + EPS
    IN  Quot(Abs(b[3]), dist_sq)
Contribution(b, px, py) ==
    LET dx == px - b[1]
        dy == py - b[2]
        dist_sq == dx * dx + dy * dy + EPS
    IN  Quot(b[3] * b[3], dist_sq)

RECURSIVE SumFrom(_, _, _, _)
SumFrom(bs, n, px, py) ==
    IF n > Len(bs) THEN 0
    ELSE Contribution(bs[n], px, py) + SumFrom(bs, n + 1, px, py)

\* MetaballField.field_value of a field whose blobs are bs
field_value(bs, px, py) == SumFrom(bs, 1, px, py)

\* MetaballField.is_inside
is_inside_strict(bs, thr, px, py) == field_value(bs, px, py) > thr
is_inside(bs, thr, px, py) == field_value(bs, px, py) >= thr

\* lines 132-137: the classifications of the four corners of the cell at (cx, cy)
Corners(bs, thr, cx, cy, step_x, step_y) ==
    << is_inside(bs, thr, cx, cy),
       is_inside(bs, thr, cx + step_x, cy),
       is_inside(bs, thr, cx + step_x, cy + step_y),
       is_inside(bs, thr, cx, cy + step_y) >>

\* line 140: not all(corners) and any(corners)
OnBoundaryAny(corners) == \E c \in 1..4 : corners[c]
OnBoundary(corners) ==
    /\ ~(\A c \in 1..4 : corners[c])
    /\ \E c \in 1..4 : corners[c]

\* MetaballField.get_boundary_points(resolution, bounds): the cells are
\* visited with i outermost and j innermost, cell number n being
\* (i, j) = ((n - 1) \div res, (n - 1) % res).  res divides both extents of
\* bounds into an even number of units, so that the steps and the cell
\* centres are exact.
get_boundary_points(bs, thr, res, bounds) ==
    LET x_min == bounds[1]
        y_min == bounds[3]
        step_x == (bounds[2] - bounds[1]) \div res
        step_y == (bounds[4] - bounds[3]) \div res
        cells == [n \in 1..(res * res) |->
                    << x_min + ((n - 1) \div res) * step_x,
                       y_min + ((n - 1) % res) * step_y >>]
        hit(c) == OnBoundary(Corners(bs, thr, c[1], c[2], step_x, step_y))
        on == SelectSeq(cells, hit)
    IN  [m \in 1..Len(on) |-> << on[m][1] + step_x \div 2, on[m][2] + step_y \div 2 >>]

\* the default bounds of line 115, also those of line 213
DefaultBounds == << -8 * UNIT, 8 * UNIT, -9 * (UNIT \div 2), 9 * (UNIT \div 2) >>

-----------------------------------------------------------------------------
(* The calls on a MetaballField.  ret records the last call and its result. *)

\* MetaballField.__init__(threshold)
FieldInit(thr) ==
    /\ threshold = thr
    /\ blobs = <<>>
    /\ ret = [op |-> "none"]

add_blob(bx, by, r) ==
    /\ blobs' = Append(blobs, <<bx, by, r>>)
    /\ ret' = [op |-> "add_blob", blob |-> <<bx, by, r>>]
    /\ UNCHANGED threshold

clear_blobs ==
    /\ blobs' = <<>>
    /\ ret' = [op |-> "clear_blobs"]
    /\ UNCHANGED threshold

\* blobs = [list(b) for b in batch]: a copy, element by element.  ret keeps
\* the caller's list and whether the field's list is that very object.
set_blobs_aliased(batch) ==
    /\ blobs' = batch
    /\ ret' = [op |-> "set_blobs", batch |-> batch, shared |-> TRUE]
    /\ UNCHANGED threshold
set_blobs(batch) ==
    /\ blobs' = [n \in 1..Len(batch) |-> [c \in 1..3 |-> batch[n][c]]]
    /\ ret' = [op |-> "set_blobs", batch |-> batch, shared |-> FALSE]
    /\ UNCHANGED threshold

\* what the caller of set_blobs can make of its own list afterwards: append
\* a blob to it, or overwrite the radius of one of its blobs
ChangedBatches(batch) ==
    { Append(batch, <<0, 0, 8>>) }
        \cup { [batch EXCEPT ![n] = <<batch[n][1], batch[n][2], 0>>] : n \in 1..Len(batch) }

\* the caller changes the list it passed to the last set_blobs: the field's
\* blobs follow only if they are the same object
batch_changed ==
    /\ ret.op = "set_blobs"
    /\ \E changed \in ChangedBatches(ret.batch) :
          /\ ret' = [op |-> "batch_changed", batch |-> changed, shared |-> ret.shared]
          /\ blobs' = IF ret.shared THEN changed ELSE blobs
    /\ UNCHANGED threshold

FieldValueCall(px, py) ==
    /\ ret' = [op |-> "field_value", at |-> <<px, py>>,
               total |-> field_value(blobs, px, py)]
    /\ UNCHANGED fieldVars

IsInsideCall(px, py) ==
    /\ ret' = [op |-> "is_inside", at |-> <<px, py>>,
               inside |-> is_inside(blobs, threshold, px, py)]
    /\ UNCHANGED fieldVars

\* the call repeats the call before it
SameScan(res, bounds) ==
    ret.op = "get_boundary_points" /\ ret.res = res /\ ret.bounds = bounds

GetBoundaryPointsClearing(res, bounds) ==
    /\ ret' = [op |-> "get_boundary_points", res |-> res, bounds |-> bounds,
               again |-> SameScan(res, bounds),
               boundary_points |-> get_boundary_points(blobs, threshold, res, bounds)]
    /\ blobs' = <<>>
    /\ UNCHANGED threshold
GetBoundaryPointsCall(res, bounds) ==
    /\ ret' = [op |-> "get_boundary_points", res |-> res, bounds |-> bounds,
               again |-> SameScan(res, bounds),
               boundary_points |-> get_boundary_points(blobs, threshold, res, bounds)]
    /\ UNCHANGED fieldVars

-----------------------------------------------------------------------------
(* scipy.spatial.ConvexHull as line 227 uses it: the indices of the hull's
   vertices in counterclockwise order, or a failure (QhullError) when the
   points span no area *)

Cross(a, b, c) == (b[1] - a[1]) * (c[2] - a[2]) - (b[2] - a[2]) * (c[1] - a[1])

Dist2(a, b) == (b[1] - a[1]) * (b[1] - a[1]) + (b[2] - a[2]) * (b[2] - a[2])

\* every point lies on the line through the first two
Flat(P) == \A m \in 1..Len(P) : Cross(P[1], P[2], P[m]) = 0

\* the lowest of the leftmost points: a vertex of the hull
FirstVertex(P) ==
    CHOOSE s \in 1..Len(P) :
        \A t \in 1..Len(P) :
            \/ P[s][1] < P[t][1]
            \/ P[s][1] = P[t][1] /\ P[s][2] <= P[t][2]

\* the vertex after p: every point is to the left of p -> q or on the segment
NextVertex(P, p) ==
    CHOOSE q \in (1..Len(P)) \ {p} :
        \A r \in 1..Len(P) :
            LET c == Cross(P[p], P[q], P[r])
            IN  c > 0 \/ (c = 0 /\ Dist2(P[p], P[r]) <= Dist2(P[p], P[q]))

RECURSIVE WrapFrom(_, _, _)
WrapFrom(P, first, acc) ==
    LET q == NextVertex(P, acc[Len(acc)])
    IN  IF q = first THEN acc ELSE WrapFrom(P, first, Append(acc, q))

ConvexHull(P) ==
    IF Len(P) < 3 \/ Flat(P) THEN [ok |-> FALSE, vertices |-> <<>>]
    ELSE [ok |-> TRUE, vertices |-> WrapFrom(P, FirstVertex(P), <<FirstVertex(P)>>)]

-----------------------------------------------------------------------------
(* MetaballMobject *)

ORIGIN == <<0, 0, 0>>

\* self.set_points([ORIGIN])
Placeholder == [by |-> "set_points", path |-> <<ORIGIN>>, circle |-> 0]

\* self.set_points(Circle(radius=1).get_points()): the circle of that radius
\* about the origin
FallbackCircle == [by |-> "set_points", path |-> <<>>, circle |-> 1 * UNIT]

\* lines 228-233: points_array[hull.vertices] as 3D points
HullPoints3d(P, vertices) ==
    [m \in 1..Len(vertices) |-> <<P[vertices[m]][1], P[vertices[m]][2], 0>>]

\* line 236: np.vstack([points_3d, points_3d[0:1]])
ClosePathOpen(points_3d) == points_3d
ClosePath(points_3d) == points_3d \o SubSeq(points_3d, 1, 1)

\* line 216
DegenerateEmptyOnly(boundary) == Len(boundary) < 1
Degenerate(boundary) == Len(boundary) < 3

\* MetaballMobject.__init__(metaball_field, resolution): the mobject holds no
\* points until generate_points is called
MobInit(res) ==
    /\ resolution = res
    /\ points = [by |-> "init", path |-> <<>>, circle |-> 0]
    /\ hullTried = FALSE

\* MetaballMobject.generate_points, called directly or by update_from_field
GeneratePoints(caller) ==
    LET boundary == get_boundary_points(blobs, threshold, resolution, DefaultBounds)
    IN  /\ IF Degenerate(boundary)
              THEN /\ points' = Placeholder
                   /\ hullTried' = FALSE
              ELSE LET hull == ConvexHull(boundary)
                   IN  /\ hullTried' = TRUE
                       /\ points' =
                            IF hull.ok
                               THEN [by |-> "set_points_smoothly",
                                     path |-> ClosePath(HullPoints3d(boundary, hull.vertices)),
                                     circle |-> 0]
                               ELSE FallbackCircle
        /\ ret' = [op |-> caller, again |-> ret.op = caller]
        /\ UNCHANGED <<fieldVars, resolution>>

generate_points == GeneratePoints("generate_points")

update_from_field == GeneratePoints("update_from_field")

-----------------------------------------------------------------------------
(* A field evaluator called in any order by the driver *)

MaxBlobs == 2

Thresholds == { FONE, FONE \div 2 }

\* the blob of line 402; one on the left edge of the viewport; one of radius
\* 0.01 on a grid node; one of negative and one of zero radius
SceneBlob == <<0, 0, 1200>>
EdgeBlob  == <<-6400, 900, 1200>>
TinyBlob  == <<0, 0, 8>>
BlobChoices == { SceneBlob, EdgeBlob, TinyBlob, <<1600, 0, -1200>>, <<0, 0, 0>> }

Batches == { <<>>, << EdgeBlob, SceneBlob >> }

QueryPoints == { <<0, 0>>, <<7, 0>>, <<800, 0>>, <<1198, 69>>, <<1600, 900>> }

BodyIdle ==
    /\ x = 0 /\ y = 0 /\ vx = 0 /\ vy = 0 /\ base_radius = 0 /\ radius = 0
    /\ ti = 0 /\ k = 0 /\ restRun = 0 /\ restV = <<0, 0>>

MobIdle == resolution = 0 /\ points = <<>> /\ hullTried = FALSE

Init ==
    /\ BodyIdle
    /\ \E thr \in Thresholds : FieldInit(thr)
    /\ MobIdle

AddBlob(choices) ==
    /\ Len(blobs) < MaxBlobs
    /\ \E b \in choices : add_blob(b[1], b[2], b[3])
    /\ UNCHANGED <<bodyVars, driverVars, mobVars>>

ClearBlobs ==
    /\ clear_blobs
    /\ UNCHANGED <<bodyVars, driverVars, mobVars>>

SetBlobs ==
    /\ \E batch \in Batches : set_blobs(batch)
    /\ UNCHANGED <<bodyVars, driverVars, mobVars>>

FieldValue ==
    /\ \E p \in QueryPoints : FieldValueCall(p[1], p[2])
    /\ UNCHANGED <<bodyVars, driverVars, mobVars>>

IsInside ==
    /\ \E p \in QueryPoints : IsInsideCall(p[1], p[2])
    /\ UNCHANGED <<bodyVars, driverVars, mobVars>>

BatchChanged ==
    /\ batch_changed
    /\ UNCHANGED <<bodyVars, driverVars, mobVars>>

Next ==
    \/ AddBlob(BlobChoices)
    \/ ClearBlobs
    \/ SetBlobs
    \/ FieldValue
    \/ IsInside
    \/ BatchChanged

Spec == Init /\ [][Next]_vars

-----------------------------------------------------------------------------
(* A field and a mobject on it: the driver changes the blobs, scans the
   boundary and regenerates the mobject's points in any order *)

Resolutions == { 4, 5 }

\* the resolution of the mobject
MobResolutions == { 4 }

BoundaryBlobs == { SceneBlob, EdgeBlob, TinyBlob }

InitBoundary ==
    /\ BodyIdle
    /\ \E thr \in Thresholds : FieldInit(thr)
    /\ \E res \in MobResolutions : MobInit(res)

GetBoundaryPoints(resolutions) ==
    /\ \E res \in resolutions : GetBoundaryPointsCall(res, DefaultBounds)
    /\ UNCHANGED <<bodyVars, driverVars, mobVars>>

GenerateFromField ==
    /\ generate_points
    /\ UNCHANGED <<bodyVars, driverVars>>

UpdateFromField ==
    /\ update_from_field
    /\ UNCHANGED <<bodyVars, driverVars>>

NextBoundary ==
    \/ AddBlob(BoundaryBlobs)
    \/ ClearBlobs
    \/ SetBlobs
    \/ GetBoundaryPoints(Resolutions)
    \/ GenerateFromField
    \/ UpdateFromField

SpecBoundary == InitBoundary /\ [][NextBoundary]_vars

-----------------------------------------------------------------------------
(* The scene's field, MetaballField(threshold=1.0), holding at most one
   source, scanned at the resolutions in use: 80 is the mobject's default
   (line 204) and 100 the default of get_boundary_points (line 115) *)

ScanResolutions == { 4, 20, 80, 100 }

\* two specks of radius 0.1, on the corner and on the left edge of the viewport
CornerSpeck == <<-6400, -3600, 80>>
EdgeSpeck   == <<-6400, 0, 80>>
ScanBlobs   == { SceneBlob, CornerSpeck, EdgeSpeck }

InitScan ==
    /\ BodyIdle
    /\ FieldInit(FONE)
    /\ MobInit(80)

AddOnlyBlob ==
    /\ blobs = <<>>
    /\ \E b \in ScanBlobs : add_blob(b[1], b[2], b[3])
    /\ UNCHANGED <<bodyVars, driverVars, mobVars>>

NextScan ==
    \/ AddOnlyBlob
    \/ ClearBlobs
    \/ GetBoundaryPoints(ScanResolutions)
    \/ GenerateFromField

SpecScan == InitScan /\ [][NextScan]_vars

-----------------------------------------------------------------------------
(* Claims about the field evaluator, checked under Spec *)

Queried == ret.op \in {"field_value", "is_inside"}

\* what the last query says about field_value(p) >= threshold
QuerySaysInside ==
    IF ret.op = "is_inside" THEN ret.inside ELSE ret.total >= threshold

(* C4 as stated: with exactly one source (x0, y0, r) and a threshold <= 1,
   every query point at a distance strictly less than r from (x0, y0) has
   field_value >= threshold, i.e. is_inside is true. *)
C4_Original ==
    (Queried /\ Len(blobs) = 1 /\ threshold <= FONE) =>
        ((blobs[1][3] > 0 /\ Dist2(blobs[1], ret.at) < blobs[1][3] * blobs[1][3])
            => QuerySaysInside)

(* C4 amended: with exactly one source (x0, y0, r) and a threshold <= 1,
   every query point with dx^2 + dy^2 + 0.0001 <= r^2 has field_value >=
   threshold, i.e. is_inside is true. *)
C4_InsideRadius ==
    (Queried /\ Len(blobs) = 1 /\ threshold <= FONE) =>
        (Dist2(blobs[1], ret.at) + EPS <= blobs[1][3] * blobs[1][3]
            => QuerySaysInside)

\* a query away from the centre of the only source, within its radius less
\* the epsilon, answered inside
C4_Witness ==
    /\ ret.op = "is_inside"
    /\ blobs = << SceneBlob >>
    /\ ret.at = <<800, 0>>
    /\ ret.inside

\* bs without its n-th blob
Without(bs, n) == SubSeq(bs, 1, n - 1) \o SubSeq(bs, n + 1, Len(bs))

(* C5: a source of radius <= 0 contributes exactly 0 to field_value at every
   query point: the field with that source equals the field without it. *)
C5_NonPositiveRadiusIsZero ==
    ret.op = "field_value" =>
        \A n \in 1..Len(blobs) :
            blobs[n][3] <= 0 =>
                ret.total = field_value(Without(blobs, n), ret.at[1], ret.at[2])

-----------------------------------------------------------------------------
(* Claims about the boundary scan and the mobject *)

Scanned == ret.op = "get_boundary_points"

Generated == ret.op \in {"generate_points", "update_from_field"}

\* field_value >= threshold at a point, the tie counted inside
AtLeastThreshold(p) == field_value(blobs, p[1], p[2]) >= threshold

\* how often pt occurs in the sequence pts
Occurrences(pts, pt) == Cardinality({ m \in 1..Len(pts) : pts[m] = pt })

(* C6: get_boundary_points emits the centre of a grid cell exactly once if
   the classifications of its four corners (field_value >= threshold, the tie
   counted inside) are not all equal and not at all otherwise, it emits
   nothing else, and it emits at most resolution * resolution points. *)
C6_StraddlingCells ==
    Scanned =>
        LET res == ret.res
            sx == (ret.bounds[2] - ret.bounds[1]) \div res
            sy == (ret.bounds[4] - ret.bounds[3]) \div res
            pts == ret.boundary_points
            corner(i, j) == << ret.bounds[1] + i * sx, ret.bounds[3] + j * sy >>
            mixed(i, j) ==
                \E a, b \in { corner(i, j), corner(i + 1, j),
                              corner(i + 1, j + 1), corner(i, j + 1) } :
                    AtLeastThreshold(a) /\ ~AtLeastThreshold(b)
            centre(i, j) == << corner(i, j)[1] + sx \div 2, corner(i, j)[2] + sy \div 2 >>
            straddling == { c \in (0..(res - 1)) \X (0..(res - 1)) : mixed(c[1], c[2]) }
        IN  /\ \A c \in (0..(res - 1)) \X (0..(res - 1)) :
                 Occurrences(pts, centre(c[1], c[2])) = IF c \in straddling THEN 1 ELSE 0
            /\ Len(pts) = Cardinality(straddling)
            /\ Len(pts) <= res * res

\* a scan in which four cells straddle only because the corner they share
\* has a field value equal to the threshold
C6_Witness ==
    /\ Scanned
    /\ ret.res = 4
    /\ blobs = << TinyBlob >>
    /\ field_value(blobs, 0, 0) = threshold
    /\ Len(ret.boundary_points) = 4

(* C7: with one source at the origin of radius 1.5 and threshold 1.0, every
   point that get_boundary_points returns over the default bounds lies at a
   distance d from the origin with |d - 1.5| < sqrt(step_x^2 + step_y^2).
   With the roots rounded down, |floor(d) - 1.5| + 1 <= floor(diagonal)
   implies it. *)
C7_WithinCellDiagonal ==
    (Scanned /\ blobs = << SceneBlob >> /\ threshold = FONE /\ ret.bounds = DefaultBounds) =>
        LET sx == (ret.bounds[2] - ret.bounds[1]) \div ret.res
            sy == (ret.bounds[4] - ret.bounds[3]) \div ret.res
            diagonal == Isqrt(sx * sx + sy * sy)
            pts == ret.boundary_points
        IN  \A m \in 1..Len(pts) :
                Abs(Isqrt(pts[m][1] * pts[m][1] + pts[m][2] * pts[m][2]) - 1200) + 1
                    <= diagonal

\* the scan of the single blob at the mobject's resolution found its ring
C7_Witness ==
    /\ Scanned
    /\ blobs = << SceneBlob >>
    /\ threshold = FONE
    /\ ret.res = 80
    /\ Len(ret.boundary_points) > 50

(* C8: whenever the boundary cloud has fewer than 3 points, generate_points
   sets the single-point placeholder [ORIGIN] without attempting the hull; a
   field of threshold 1.0 with no sources has field value 0 and is_inside
   false, its scan emits no points, and generate_points at resolution 80
   leaves the placeholder. *)
C8_DegenerateBoundary ==
    /\ (Generated /\ Len(get_boundary_points(blobs, threshold, resolution, DefaultBounds)) < 3)
          => (points = Placeholder /\ ~hullTried)
    /\ (blobs = <<>> /\ threshold = FONE) =>
          /\ Scanned => ret.boundary_points = <<>>
          /\ Generated => points = Placeholder
          /\ \A p \in QueryPoints :
                field_value(blobs, p[1], p[2]) = 0 /\ ~is_inside(blobs, threshold, p[1], p[2])

\* generate_points at resolution 80 on a cloud of one or two points
C8_Witness ==
    /\ Generated
    /\ resolution = 80
    /\ blobs # <<>>
    /\ Len(get_boundary_points(blobs, threshold, resolution, DefaultBounds)) \in {1, 2}
    /\ points = Placeholder

\* the cloud the last generate_points worked on (the blobs have not changed since)
Cloud == get_boundary_points(blobs, threshold, resolution, DefaultBounds)

\* all points of the cloud lie on one line
Collinear(P) ==
    \A a, b, c \in 1..Len(P) : Cross(P[a], P[b], P[c]) = 0

\* path is a closed counterclockwise walk round the convex hull of P: it ends
\* where it starts, its vertices are distinct points of P, it turns left at
\* every vertex, and no point of P lies to the right of any of its edges
ClosedHullPath(path, P) ==
    LET n == Len(path) - 1
        v(m) == path[((m - 1) % n) + 1]
    IN  /\ n >= 3
        /\ path[n + 1] = path[1]
        /\ \A m \in 1..n : \E c \in 1..Len(P) : path[m] = <<P[c][1], P[c][2], 0>>
        /\ \A m1, m2 \in 1..n : path[m1] = path[m2] => m1 = m2
        /\ \A m \in 1..n : Cross(v(m), v(m + 1), v(m + 2)) > 0
        /\ \A m \in 1..n : \A c \in 1..Len(P) : Cross(v(m), v(m + 1), P[c]) >= 0

(* C9: when the boundary cloud has at least 3 points and the hull cannot be
   built (the points are collinear), generate_points returns normally having
   set the unit circle about the origin; when it can, the points set are the
   hull's vertices in hull order followed by the first vertex again. *)
C9_HullOrFallback ==
    (Generated /\ Len(Cloud) >= 3) =>
        IF Collinear(Cloud)
           THEN points = FallbackCircle
           ELSE /\ points.by = "set_points_smoothly"
                /\ ClosedHullPath(points.path, Cloud)

\* generate_points has met a collinear cloud of three or more points
C9_Witness ==
    /\ Generated
    /\ Len(Cloud) >= 3
    /\ Collinear(Cloud)
    /\ hullTried
    /\ points = FallbackCircle

(* C10: get_boundary_points, generate_points and update_from_field leave the
   evaluator's source list and threshold unchanged, and a call that repeats
   the call before it (same resolution and bounds, nothing changed between)
   yields the identical point list in the identical order. *)
C10_PureRead ==
    [][/\ ret'.op = "get_boundary_points" =>
             /\ UNCHANGED <<blobs, threshold>>
             /\ ret'.again => ret'.boundary_points = ret.boundary_points
       /\ ret'.op \in {"generate_points", "update_from_field"} =>
             /\ UNCHANGED <<blobs, threshold>>
             /\ ret'.again => points' = points]_vars

\* a scan repeated on a field with sources, returning points
C10_Witness ==
    /\ Scanned
    /\ ret.again
    /\ blobs # <<>>
    /\ ret.boundary_points # <<>>

-----------------------------------------------------------------------------
(* C11: add_blob appends exactly the given source at the end and leaves the
   earlier sources as they were (no dedup, no limit), clear_blobs empties the
   list, set_blobs replaces the whole list by the given batch in order, a
   later change of the caller's batch leaves the evaluator's sources as they
   were, field_value and is_inside leave them as they were, and none of
   these changes the threshold.  Checked under Spec. *)
C11_SourceList ==
    [][/\ threshold' = threshold
       /\ ret'.op = "add_blob" => blobs' = blobs \o << ret'.blob >>
       /\ ret'.op = "clear_blobs" => blobs' = <<>>
       /\ ret'.op = "set_blobs" => blobs' = ret'.batch
       /\ ret'.op = "batch_changed" => blobs' = blobs
       /\ ret'.op \in {"field_value", "is_inside"} => blobs' = blobs]_vars

\* the caller has changed the batch it passed to set_blobs, and the
\* evaluator still holds the two sources of the batch as it was passed
C11_Witness ==
    /\ ret.op = "batch_changed"
    /\ Len(blobs) = 2
    /\ blobs # ret.batch
    /\ blobs \in Batches

=============================================================================
